---- MODULE Spec2Model ----
(***************************************************************************)
(* Model of src/main.py: the adjacency-list tree, the materialized-path    *)
(* tree and the two converters between them.                               *)
(*                                                                         *)
(* A Python str is a sequence of one-character strings (<<"/", "a">> is    *)
(* "/a"), so that concatenation, startswith, split and the ordering of     *)
(* list.sort() are computed as the interpreter computes them.  A dict is a *)
(* sequence of its values in insertion order (every node record carries    *)
(* its key, node_id).  Optional[str] is None or Some(s).                   *)
(***************************************************************************)
EXTENDS Naturals, Sequences, FiniteSets

VARIABLES al, mp, al2, op, exc

vars == <<al, mp, al2, op, exc>>

-----------------------------------------------------------------------------
(* Bounds and inputs *)

\* Largest number of nodes the driver puts into one container.
MaxNodes == 3

None == <<>>
Some(s) == <<s>>

\* str(): the characters of the inputs, with their code points.
Code(c) ==
  CASE c = "." -> 46
    [] c = "/" -> 47
    [] c = "a" -> 97
    [] c = "b" -> 98
    [] c = "c" -> 99

\* The exceptions of the program: ValueError, told apart by the message.
NoExc == "none"
DuplicateIdentifier == "ValueError: Node already exists"
UnknownParent == "ValueError: Parent does not exist"
MalformedPathPrefix == "ValueError: Path must start with separator"
MalformedPathEmpty == "ValueError: Bad path for node"
PathIdentityMismatch == "ValueError: Path mismatch"

-----------------------------------------------------------------------------
(* str operations *)

\* str.startswith
StartsWith(s, p) == Len(p) <= Len(s) /\ SubSeq(s, 1, Len(p)) = p

\* str.split(sep) for a non-empty sep: cur is the segment being read.
RECURSIVE SplitFrom(_, _, _)
SplitFrom(s, sep, cur) ==
  IF s = <<>> THEN <<cur>>
  ELSE IF StartsWith(s, sep)
       THEN <<cur>> \o SplitFrom(SubSeq(s, Len(sep) + 1, Len(s)), sep, <<>>)
       ELSE SplitFrom(Tail(s), sep, Append(cur, Head(s)))

Split(s, sep) == SplitFrom(s, sep, <<>>)

NonEmpty(p) == p # <<>>

\* Mutant of Parts: the empty segments are kept.
Parts_keep_empty(path, sep) == Split(path, sep)

\* [p for p in path.split(sep) if p]
Parts(path, sep) == SelectSeq(Split(path, sep), NonEmpty)

\* str.__lt__: lexicographic by code point, a proper prefix first.
RECURSIVE StrLess(_, _)
StrLess(s, t) ==
  IF t = <<>> THEN FALSE
  ELSE IF s = <<>> THEN TRUE
  ELSE IF Code(Head(s)) < Code(Head(t)) THEN TRUE
  ELSE IF Code(Head(s)) > Code(Head(t)) THEN FALSE
  ELSE StrLess(Tail(s), Tail(t))

-----------------------------------------------------------------------------
(* list.sort() *)

\* Insertion of x into a list sorted by str.__lt__.
RECURSIVE InsertSorted(_, _)
InsertSorted(x, sorted) ==
  IF sorted = <<>> THEN <<x>>
  ELSE IF StrLess(x, Head(sorted)) THEN <<x>> \o sorted
  ELSE <<Head(sorted)>> \o InsertSorted(x, Tail(sorted))

\* Mutant of SortIds: the groups stay in the dict's iteration order.
SortIds_none(ids) == ids

\* children_map[k].sort(): ascending by str.__lt__.
RECURSIVE SortIds(_)
SortIds(ids) ==
  IF ids = <<>> THEN <<>>
  ELSE InsertSorted(ids[Len(ids)], SortIds(SubSeq(ids, 1, Len(ids) - 1)))

-----------------------------------------------------------------------------
(* AdjacencyListTree *)

ALNode(node_id, parent_id, name) ==
  [node_id |-> node_id, parent_id |-> parent_id, name |-> name]

\* node_id in self.nodes
HasNode(nodes, node_id) == \E i \in 1..Len(nodes) : nodes[i].node_id = node_id

\* self.nodes[node_id]
NodeOf(nodes, node_id) ==
  nodes[CHOOSE i \in 1..Len(nodes) : nodes[i].node_id = node_id]

\* Mutant of AL_add_node: the parent is not checked.
AL_add_node_no_parent_check(nodes, node_id, parent_id, name) ==
  IF HasNode(nodes, node_id)
  THEN [nodes |-> nodes, exc |-> DuplicateIdentifier]
  ELSE [nodes |-> Append(nodes, ALNode(node_id, parent_id, name)), exc |-> NoExc]

\* Mutant of AL_add_node: the node is stored before the parent is checked.
AL_add_node_insert_first(nodes, node_id, parent_id, name) ==
  IF HasNode(nodes, node_id)
  THEN [nodes |-> nodes, exc |-> DuplicateIdentifier]
  ELSE [nodes |-> Append(nodes, ALNode(node_id, parent_id, name)),
        exc |-> IF parent_id # None /\ ~HasNode(nodes, parent_id[1])
                THEN UnknownParent ELSE NoExc]

\* AdjacencyListTree.add_node: the dict after the call and what was raised.
AL_add_node(nodes, node_id, parent_id, name) ==
  IF HasNode(nodes, node_id)
  THEN [nodes |-> nodes, exc |-> DuplicateIdentifier]
  ELSE IF parent_id # None /\ ~HasNode(nodes, parent_id[1])
  THEN [nodes |-> nodes, exc |-> UnknownParent]
  ELSE [nodes |-> Append(nodes, ALNode(node_id, parent_id, name)), exc |-> NoExc]

-----------------------------------------------------------------------------
(* MaterializedPathTree *)

MPNode(node_id, path, name) == [node_id |-> node_id, path |-> path, name |-> name]

\* MaterializedPathTree.__init__
MP_init(sep) == [sep |-> sep, nodes |-> <<>>]

\* Mutant of MP_add_node: a path whose last segment is not the identifier is
\* refused as well.
MP_add_node_checks_last_segment(tree, node_id, path, name) ==
  IF HasNode(tree.nodes, node_id)
  THEN [mp |-> tree, exc |-> DuplicateIdentifier]
  ELSE IF \/ ~StartsWith(path, tree.sep)
          \/ Parts(path, tree.sep) = <<>>
          \/ Parts(path, tree.sep)[Len(Parts(path, tree.sep))] # node_id
  THEN [mp |-> tree, exc |-> MalformedPathPrefix]
  ELSE [mp |-> [tree EXCEPT !.nodes = Append(@, MPNode(node_id, path, name))],
        exc |-> NoExc]

\* MaterializedPathTree.add_node: the tree after the call and what was raised.
MP_add_node(tree, node_id, path, name) ==
  IF HasNode(tree.nodes, node_id)
  THEN [mp |-> tree, exc |-> DuplicateIdentifier]
  ELSE IF ~StartsWith(path, tree.sep)
  THEN [mp |-> tree, exc |-> MalformedPathPrefix]
  ELSE [mp |-> [tree EXCEPT !.nodes = Append(@, MPNode(node_id, path, name))],
        exc |-> NoExc]

-----------------------------------------------------------------------------
(* convert_al_to_mp *)

\* The node ids, in the dict's iteration order, whose parent_id is k.
ChildIds(nodes, k) ==
  LET sel(n) == n.parent_id = k
      kids == SelectSeq(nodes, sel)
  IN  [i \in 1..Len(kids) |-> kids[i].node_id]

\* children_map after the grouping loop and the sort of every group.
ChildrenMap(nodes) ==
  [k \in {nodes[i].parent_id : i \in 1..Len(nodes)} |-> SortIds(ChildIds(nodes, k))]

\* Mutant of GetChildren: only the roots are found.
GetChildren_roots_only(cm, k) == IF k = None /\ k \in DOMAIN cm THEN cm[k] ELSE <<>>

\* children_map.get(k, [])
GetChildren(cm, k) == IF k \in DOMAIN cm THEN cm[k] ELSE <<>>

\* cur_path of dfs_build
CurPath(sep, node_id, parent_path) ==
  IF parent_path = sep THEN sep \o node_id ELSE parent_path \o sep \o node_id

\* dfs_build(node_id, parent_path) and the for loops that call it.  acc is the
\* output tree so far and the exception raised so far; an exception ends the
\* conversion.
RECURSIVE DfsBuild(_, _, _, _, _, _)
RECURSIVE DfsEach(_, _, _, _, _, _)
DfsBuild(nodes, cm, sep, node_id, parent_path, acc) ==
  LET cur_path == CurPath(sep, node_id, parent_path)
      r == MP_add_node(acc.mp, node_id, cur_path, NodeOf(nodes, node_id).name)
  IN  IF r.exc # NoExc THEN r
      ELSE DfsEach(nodes, cm, sep, GetChildren(cm, Some(node_id)), cur_path, r)

DfsEach(nodes, cm, sep, ids, parent_path, acc) ==
  IF ids = <<>> \/ acc.exc # NoExc THEN acc
  ELSE DfsEach(nodes, cm, sep, Tail(ids), parent_path,
               DfsBuild(nodes, cm, sep, Head(ids), parent_path, acc))

convert_al_to_mp(nodes, sep) ==
  LET cm == ChildrenMap(nodes)
  IN  DfsEach(nodes, cm, sep, GetChildren(cm, None), sep,
              [mp |-> MP_init(sep), exc |-> NoExc])

-----------------------------------------------------------------------------
(* convert_mp_to_al *)

\* depth(node)
Depth(node, sep) == Len(Parts(node.path, sep))

\* Insertion of x into a list sorted by depth, after the items of its depth.
RECURSIVE InsertByDepth(_, _, _)
InsertByDepth(x, sorted, sep) ==
  IF sorted = <<>> THEN <<x>>
  ELSE IF Depth(x, sep) < Depth(Head(sorted), sep) THEN <<x>> \o sorted
  ELSE <<Head(sorted)>> \o InsertByDepth(x, Tail(sorted), sep)

\* Mutant of SortByDepth: the items stay in the dict's iteration order.
SortByDepth_none(items, sep) == items

\* items.sort(key=depth): stable.
RECURSIVE SortByDepth(_, _)
SortByDepth(items, sep) ==
  IF items = <<>> THEN <<>>
  ELSE InsertByDepth(items[Len(items)],
                     SortByDepth(SubSeq(items, 1, Len(items) - 1), sep), sep)

\* Mutant of ParentOfParts: the first segment is taken for the parent.
ParentOfParts_first(parts) ==
  IF Len(parts) = 1 THEN None ELSE Some(parts[1])

\* parent_id of the loop body
ParentOfParts(parts) ==
  IF Len(parts) = 1 THEN None ELSE Some(parts[Len(parts) - 1])

\* The loop over the sorted items; acc is the tree so far and the exception.
RECURSIVE RebuildEach(_, _, _)
RebuildEach(items, sep, acc) ==
  IF items = <<>> \/ acc.exc # NoExc THEN acc
  ELSE LET node == Head(items)
           parts == Parts(node.path, sep)
           step ==
             IF parts = <<>> THEN [nodes |-> acc.nodes, exc |-> MalformedPathEmpty]
             ELSE IF parts[Len(parts)] # node.node_id
             THEN [nodes |-> acc.nodes, exc |-> PathIdentityMismatch]
             ELSE AL_add_node(acc.nodes, node.node_id, ParentOfParts(parts), node.name)
       IN  RebuildEach(Tail(items), sep, step)

convert_mp_to_al(tree) ==
  RebuildEach(SortByDepth(tree.nodes, tree.sep), tree.sep,
              [nodes |-> <<>>, exc |-> NoExc])

-----------------------------------------------------------------------------
(* The caller: the containers it holds and the calls it makes *)

\* Identifiers given to AdjacencyListTree.add_node: "", "a", "b", "a/b".
AlIdInputs == {<<>>, <<"a">>, <<"b">>, <<"a", "/", "b">>}

\* Identifiers given to MaterializedPathTree.add_node: "a", "b", "c".
MpIdInputs == {<<"a">>, <<"b">>, <<"c">>}

\* Paths given to MaterializedPathTree.add_node:
\* "a/b", "/", "/a", "/b", "/a/b", "//a", "/a/b/c".
MpPathInputs ==
  { <<"a", "/", "b">>, <<"/">>, <<"/", "a">>, <<"/", "b">>,
    <<"/", "a", "/", "b">>, <<"/", "/", "a">>,
    <<"/", "a", "/", "b", "/", "c">> }

NameInputs == {"", "Root A"}

MpNameInputs == {"Node B"}

\* The name given by the caller that only builds.
BuildNameInputs == {"Root A"}

\* Delimiters: one character each, "/" the default.
SepInputs == {<<"/">>, <<".">>}

DefaultSep == <<"/">>

\* al = AdjacencyListTree(); mp = MaterializedPathTree(sep); no call made yet.
Init ==
  /\ al = <<>>
  /\ mp \in {MP_init(sep) : sep \in SepInputs}
  /\ al2 = <<>>
  /\ op = "init"
  /\ exc = NoExc

\* al.add_node(node_id, parent_id, name)
AlAddNode(node_id, parent_id, name) ==
  LET r == AL_add_node(al, node_id, parent_id, name)
  IN  /\ r.exc = NoExc => Len(al) < MaxNodes
      /\ al' = r.nodes
      /\ exc' = r.exc
      /\ op' = "al.add_node"
      /\ UNCHANGED <<mp, al2>>

\* mp.add_node(node_id, path, name)
MpAddNode(node_id, path, name) ==
  LET r == MP_add_node(mp, node_id, path, name)
  IN  /\ r.exc = NoExc => Len(mp.nodes) < MaxNodes
      /\ mp' = r.mp
      /\ exc' = r.exc
      /\ op' = "mp.add_node"
      /\ UNCHANGED <<al, al2>>

\* mp = convert_al_to_mp(al, sep): mp is assigned when the call returns.
ConvertAlToMp(sep) ==
  LET r == convert_al_to_mp(al, sep)
  IN  /\ mp' = IF r.exc = NoExc THEN r.mp ELSE mp
      /\ exc' = r.exc
      /\ op' = "convert_al_to_mp"
      /\ UNCHANGED <<al, al2>>

\* Mutant of ConvertMpToAl: the sort by depth is done on the input's own nodes.
ConvertMpToAl_sorts_input ==
  LET r == convert_mp_to_al(mp)
  IN  /\ al2' = IF r.exc = NoExc THEN r.nodes ELSE al2
      /\ mp' = [mp EXCEPT !.nodes = SortByDepth(mp.nodes, mp.sep)]
      /\ exc' = r.exc
      /\ op' = "convert_mp_to_al"
      /\ UNCHANGED al

\* al2 = convert_mp_to_al(mp): al2 is assigned when the call returns.
ConvertMpToAl ==
  LET r == convert_mp_to_al(mp)
  IN  /\ al2' = IF r.exc = NoExc THEN r.nodes ELSE al2
      /\ exc' = r.exc
      /\ op' = "convert_mp_to_al"
      /\ UNCHANGED <<al, mp>>

\* al2.add_node(node_id, parent_id, name): a call on the returned container.
Al2AddNode(node_id, parent_id, name) ==
  LET r == AL_add_node(al2, node_id, parent_id, name)
  IN  /\ r.exc = NoExc => Len(al2) < MaxNodes
      /\ al2' = r.nodes
      /\ exc' = r.exc
      /\ op' = "al2.add_node"
      /\ UNCHANGED <<al, mp>>

AlParentInputs == {None} \cup {Some(i) : i \in AlIdInputs}

\* A caller that only builds an adjacency list (lines 138-142).
NextBuild ==
  \E node_id \in AlIdInputs, parent_id \in AlParentInputs, name \in BuildNameInputs :
    AlAddNode(node_id, parent_id, name)

\* al = AdjacencyListTree(); the other containers are not used.
InitBuild == Init /\ mp = MP_init(DefaultSep)

SpecBuild == InitBuild /\ [][NextBuild]_vars

\* The caller of the example (lines 137-156): it builds an adjacency list,
\* then converts it, then converts the result back.
NextAL ==
  \/ \E node_id \in AlIdInputs, parent_id \in AlParentInputs, name \in NameInputs :
       /\ op \in {"init", "al.add_node"}
       /\ AlAddNode(node_id, parent_id, name)
  \/ \E sep \in SepInputs : ConvertAlToMp(sep)
  \/ ConvertMpToAl

SpecAL == Init /\ [][NextAL]_vars

\* A caller that builds a materialized-path tree by hand and converts it.
NextMP ==
  \/ \E node_id \in MpIdInputs, path \in MpPathInputs, name \in MpNameInputs :
       MpAddNode(node_id, path, name)
  \/ ConvertMpToAl

SpecMP == Init /\ [][NextMP]_vars

\* Identifiers and paths of the caller that does everything: "a", "b";
\* "/a", "/b", "/b/a".
FewIds == {<<"a">>, <<"b">>}

FewPaths == {<<"/", "a">>, <<"/", "b">>, <<"/", "b", "/", "a">>}

\* A caller that makes any call at any time, on any container it holds.
Next ==
  \/ \E node_id \in FewIds, parent_id \in {None} \cup {Some(i) : i \in FewIds},
        name \in MpNameInputs :
       AlAddNode(node_id, parent_id, name)
  \/ \E node_id \in FewIds, path \in FewPaths, name \in MpNameInputs :
       MpAddNode(node_id, path, name)
  \/ ConvertAlToMp(DefaultSep)
  \/ ConvertMpToAl
  \/ \E node_id \in FewIds, parent_id \in {None} \cup {Some(i) : i \in FewIds},
        name \in MpNameInputs :
       Al2AddNode(node_id, parent_id, name)

Spec == Init /\ [][Next]_vars

-----------------------------------------------------------------------------
(* Vocabulary of the properties *)

Ids(nodes) == {nodes[i].node_id : i \in 1..Len(nodes)}

NodeSet(nodes) == {nodes[i] : i \in 1..Len(nodes)}

NoDuplicateIds(nodes) ==
  \A i, j \in 1..Len(nodes) : nodes[i].node_id = nodes[j].node_id => i = j

\* s contains the delimiter sep.
ContainsSep(s, sep) == Len(Split(s, sep)) > 1

\* The node reached from node_id by k parent steps, None past a root or when
\* the parent is not a node.
RECURSIVE AncestorAt(_, _, _)
AncestorAt(nodes, node_id, k) ==
  IF ~HasNode(nodes, node_id) THEN None
  ELSE IF k = 0 THEN Some(node_id)
  ELSE LET p == NodeOf(nodes, node_id).parent_id
       IN  IF p = None THEN None ELSE AncestorAt(nodes, p[1], k - 1)

-----------------------------------------------------------------------------
(* C8 *)

\* C8: every stored node's parent is absent or is a node inserted strictly
\* earlier; hence no node is its own ancestor and every parent chain ends at a
\* root within as many steps as there are nodes.
C8_Forest ==
  /\ \A i \in 1..Len(al) :
       \/ al[i].parent_id = None
       \/ \E j \in 1..(i - 1) : al[j].node_id = al[i].parent_id[1]
  /\ \A i \in 1..Len(al) :
       /\ \A k \in 1..Len(al) : AncestorAt(al, al[i].node_id, k) # Some(al[i].node_id)
       /\ \E k \in 0..(Len(al) - 1) :
            /\ AncestorAt(al, al[i].node_id, k) # None
            /\ NodeOf(al, AncestorAt(al, al[i].node_id, k)[1]).parent_id = None

\* A chain of three nodes stands, and the last call was refused.
C8_Witness ==
  /\ op = "al.add_node"
  /\ exc = UnknownParent
  /\ \E i \in 1..Len(al) : AncestorAt(al, al[i].node_id, 2) # None

-----------------------------------------------------------------------------
(* C5 *)

\* C5 as stated: a present identifier is refused with DuplicateIdentifier, a
\* parent that is given and not in the container with UnknownParent, both
\* leaving the container as it was; every other call inserts one node.
C5_Original ==
  [][\A node_id \in AlIdInputs, parent_id \in AlParentInputs, name \in BuildNameInputs :
       AlAddNode(node_id, parent_id, name) =>
         /\ HasNode(al, node_id) => exc' = DuplicateIdentifier /\ al' = al
         /\ (parent_id # None /\ ~HasNode(al, parent_id[1])) =>
              exc' = UnknownParent /\ al' = al
         /\ (~HasNode(al, node_id) /\ (parent_id = None \/ HasNode(al, parent_id[1]))) =>
              /\ exc' = NoExc
              /\ al' = Append(al, ALNode(node_id, parent_id, name))]_vars

\* C5 amended: UnknownParent is the answer only when the identifier is new; a
\* call with a present identifier and an unknown parent is refused with
\* DuplicateIdentifier.
C5_Rejection ==
  [][\A node_id \in AlIdInputs, parent_id \in AlParentInputs, name \in BuildNameInputs :
       AlAddNode(node_id, parent_id, name) =>
         /\ HasNode(al, node_id) => exc' = DuplicateIdentifier /\ al' = al
         /\ (~HasNode(al, node_id) /\ parent_id # None /\ ~HasNode(al, parent_id[1])) =>
              exc' = UnknownParent /\ al' = al
         /\ (~HasNode(al, node_id) /\ (parent_id = None \/ HasNode(al, parent_id[1]))) =>
              /\ exc' = NoExc
              /\ al' = Append(al, ALNode(node_id, parent_id, name))]_vars

\* A call was refused for its parent while the container held nodes.
C5_Witness == op = "al.add_node" /\ exc = UnknownParent /\ Len(al) >= 1

-----------------------------------------------------------------------------
(* C3 *)

-----------------------------------------------------------------------------
(* C2 *)

\* path of node_id in a materialized-path tree
PathOf(tree, node_id) == NodeOf(tree.nodes, node_id).path

\* C2: in the output of convert_al_to_mp(T, sep) a root r has the path
\* sep + r and any other node n the path path(parent(n)) + sep + n.
C2_DepthContainment ==
  (op = "convert_al_to_mp" /\ exc = NoExc) =>
    \A i \in 1..Len(al) :
      LET n == al[i]
      IN  PathOf(mp, n.node_id) =
            IF n.parent_id = None
            THEN mp.sep \o n.node_id
            ELSE PathOf(mp, n.parent_id[1]) \o mp.sep \o n.node_id

-----------------------------------------------------------------------------
(* C4 *)

\* The bijections of 1..n.
Permutations(n) ==
  {f \in [1..n -> 1..n] : \A i, j \in 1..n : f[i] = f[j] => i = j}

\* The nodes in the order f, when add_node accepts them in that order.
Reordered(nodes, f) == [i \in 1..Len(nodes) |-> nodes[f[i]]]

ValidOrder(nodes) ==
  \A i \in 1..Len(nodes) :
    \/ nodes[i].parent_id = None
    \/ \E j \in 1..(i - 1) : nodes[j].node_id = nodes[i].parent_id[1]

\* The identifiers from the root down to node_id.
RECURSIVE Chain(_, _)
Chain(nodes, node_id) ==
  LET p == NodeOf(nodes, node_id).parent_id
  IN  IF p = None THEN <<node_id>> ELSE Append(Chain(nodes, p[1]), node_id)

\* Depth-first pre-order with siblings ascending: an ancestor before its
\* descendants, and at the first difference the smaller identifier first.
RECURSIVE ChainLess(_, _)
ChainLess(c, d) ==
  IF d = <<>> THEN FALSE
  ELSE IF c = <<>> THEN TRUE
  ELSE IF Head(c) = Head(d) THEN ChainLess(Tail(c), Tail(d))
  ELSE StrLess(Head(c), Head(d))

\* C4: trees with the same nodes, built in different valid orders, convert
\* (same delimiter) to the same output nodes created in the same order, which
\* is depth-first pre-order with roots and siblings ascending by identifier.
C4_Deterministic ==
  (op = "convert_al_to_mp" /\ exc = NoExc) =>
    /\ \A f \in Permutations(Len(al)) :
         ValidOrder(Reordered(al, f)) =>
           convert_al_to_mp(Reordered(al, f), mp.sep) = [mp |-> mp, exc |-> NoExc]
    /\ \A i, j \in 1..Len(mp.nodes) :
         i < j => ChainLess(Chain(al, mp.nodes[i].node_id),
                            Chain(al, mp.nodes[j].node_id))

\* Two siblings were added in descending order (and could have been added in
\* the other), and the tree has been converted.
C4_Witness ==
  /\ op = "convert_al_to_mp"
  /\ exc = NoExc
  /\ \E i, j \in 1..Len(al) :
       /\ i < j
       /\ al[i].parent_id = al[j].parent_id
       /\ StrLess(al[j].node_id, al[i].node_id)
  /\ \E i \in 1..Len(al) : al[i].parent_id # None

-----------------------------------------------------------------------------
(* C1 *)

\* mp is what convert_al_to_mp makes of al with mp's delimiter.
ForwardOf(nodes, tree) == convert_al_to_mp(nodes, tree.sep) = [mp |-> tree, exc |-> NoExc]

\* Same identifiers, same parent of each, same name of each.
SameTree(t, u) == Len(t) = Len(u) /\ NodeSet(t) = NodeSet(u)

\* C1 as stated: for every tree built by add_node, converting forth and back
\* succeeds and gives the same identifiers, parents and names.
C1_Original ==
  (op = "convert_mp_to_al" /\ ForwardOf(al, mp)) =>
    exc = NoExc /\ SameTree(al2, al)

\* Every identifier is non-empty and free of the delimiter.
PlainIds(nodes, sep) ==
  \A i \in 1..Len(nodes) :
    nodes[i].node_id # <<>> /\ ~ContainsSep(nodes[i].node_id, sep)

\* C1 amended: the round trip holds for the trees whose identifiers are
\* non-empty and do not contain the delimiter.
C1_RoundTrip ==
  (op = "convert_mp_to_al" /\ ForwardOf(al, mp) /\ PlainIds(al, mp.sep)) =>
    exc = NoExc /\ SameTree(al2, al)

\* A chain of three plain identifiers went forth and back.
C1_Witness ==
  /\ op = "convert_mp_to_al"
  /\ ForwardOf(al, mp)
  /\ PlainIds(al, mp.sep)
  /\ \E i \in 1..Len(al) : AncestorAt(al, al[i].node_id, 2) # None

-----------------------------------------------------------------------------
(* C6 *)

\* C6 as stated: a present identifier is refused with DuplicateIdentifier, a
\* path that does not start with the delimiter with MalformedPath, both
\* leaving the container as it was; every other call inserts the node.
C6_Original ==
  [][\A node_id \in MpIdInputs, path \in MpPathInputs, name \in MpNameInputs :
       MpAddNode(node_id, path, name) =>
         /\ HasNode(mp.nodes, node_id) => exc' = DuplicateIdentifier /\ mp' = mp
         /\ ~StartsWith(path, mp.sep) => exc' = MalformedPathPrefix /\ mp' = mp
         /\ (~HasNode(mp.nodes, node_id) /\ StartsWith(path, mp.sep)) =>
              /\ exc' = NoExc
              /\ mp'.sep = mp.sep
              /\ mp'.nodes = Append(mp.nodes, MPNode(node_id, path, name))]_vars

\* C6 amended: MalformedPath is the answer only when the identifier is new; a
\* call with a present identifier and a malformed path is refused with
\* DuplicateIdentifier.
C6_AddNode ==
  [][\A node_id \in MpIdInputs, path \in MpPathInputs, name \in MpNameInputs :
       MpAddNode(node_id, path, name) =>
         /\ HasNode(mp.nodes, node_id) => exc' = DuplicateIdentifier /\ mp' = mp
         /\ (~HasNode(mp.nodes, node_id) /\ ~StartsWith(path, mp.sep)) =>
              exc' = MalformedPathPrefix /\ mp' = mp
         /\ (~HasNode(mp.nodes, node_id) /\ StartsWith(path, mp.sep)) =>
              /\ exc' = NoExc
              /\ mp'.sep = mp.sep
              /\ mp'.nodes = Append(mp.nodes, MPNode(node_id, path, name))]_vars

\* The last call inserted a node whose path ends in another identifier and
\* names an ancestor that is not a node.
C6_Witness ==
  /\ op = "mp.add_node"
  /\ exc = NoExc
  /\ LET n == mp.nodes[Len(mp.nodes)]
         parts == Parts(n.path, mp.sep)
     IN  /\ Len(parts) >= 2
         /\ parts[Len(parts)] # n.node_id
         /\ ~HasNode(mp.nodes, parts[1])

-----------------------------------------------------------------------------
(* C7 *)

\* Node i of the tree has a last non-empty segment and it is not its identifier.
Mismatched(tree, i) ==
  LET parts == Parts(tree.nodes[i].path, tree.sep)
  IN  parts # <<>> /\ parts[Len(parts)] # tree.nodes[i].node_id

\* C7 as stated: a tree with a mismatched node is refused with
\* PathIdentityMismatch, whatever else it holds.
C7_Original ==
  (op = "convert_mp_to_al" /\ \E i \in 1..Len(mp.nodes) : Mismatched(mp, i)) =>
    exc = PathIdentityMismatch

\* Node i is handled before node j: it is shallower, or as deep and added earlier.
Before(tree, i, j) ==
  \/ Depth(tree.nodes[i], tree.sep) < Depth(tree.nodes[j], tree.sep)
  \/ Depth(tree.nodes[i], tree.sep) = Depth(tree.nodes[j], tree.sep) /\ i < j

\* What node i is refused with when every node before it was accepted.
FailureOf(tree, i) ==
  LET parts == Parts(tree.nodes[i].path, tree.sep)
  IN  IF parts = <<>> THEN MalformedPathEmpty
      ELSE IF parts[Len(parts)] # tree.nodes[i].node_id THEN PathIdentityMismatch
      ELSE IF /\ Len(parts) >= 2
              /\ ~\E p \in 1..Len(tree.nodes) :
                    /\ Before(tree, p, i)
                    /\ tree.nodes[p].node_id = parts[Len(parts) - 1]
      THEN UnknownParent
      ELSE NoExc

\* C7 amended: a tree with a mismatched node is always refused, with the
\* failure of the first refused node in ascending depth (insertion order
\* among equals): PathIdentityMismatch when that node is a mismatched one,
\* else MalformedPath (no segment) or UnknownParent (parent not yet inserted).
C7_FirstFailure ==
  (op = "convert_mp_to_al" /\ \E i \in 1..Len(mp.nodes) : Mismatched(mp, i)) =>
    /\ exc # NoExc
    /\ \E i \in 1..Len(mp.nodes) :
         /\ FailureOf(mp, i) = exc
         /\ \A j \in 1..Len(mp.nodes) : Before(mp, j, i) => FailureOf(mp, j) = NoExc

\* A tree of a well-formed node and a mismatched one was refused for the mismatch.
C7_Witness ==
  /\ op = "convert_mp_to_al"
  /\ exc = PathIdentityMismatch
  /\ \E i, j \in 1..Len(mp.nodes) :
       Mismatched(mp, i) /\ Before(mp, j, i) /\ FailureOf(mp, j) = NoExc

-----------------------------------------------------------------------------
(* C10 *)

\* convert_al_to_mp(nodes, sep) succeeds and gives every node of tree its path.
SamePaths(nodes, tree) ==
  LET f == convert_al_to_mp(nodes, tree.sep)
  IN  /\ f.exc = NoExc
      /\ Ids(f.mp.nodes) = Ids(tree.nodes)
      /\ \A i \in 1..Len(tree.nodes) :
           PathOf(f.mp, tree.nodes[i].node_id) = tree.nodes[i].path

\* C10 as stated: whenever convert_mp_to_al(M) succeeds, converting the result
\* forward gives M's path for every identifier.
C10_Original ==
  (op = "convert_mp_to_al" /\ exc = NoExc) => SamePaths(al2, mp)

\* Every path is the delimiter and the node's identifier, or the path of a
\* node of the tree, the delimiter and the node's identifier; identifiers are
\* non-empty and free of the delimiter.
WellFormed(tree) ==
  \A i \in 1..Len(tree.nodes) :
    LET n == tree.nodes[i]
    IN  /\ n.node_id # <<>>
        /\ ~ContainsSep(n.node_id, tree.sep)
        /\ \/ n.path = tree.sep \o n.node_id
           \/ \E p \in 1..Len(tree.nodes) :
                n.path = tree.nodes[p].path \o tree.sep \o n.node_id

\* C10 amended: for a well-formed M, convert_mp_to_al(M) succeeds and
\* converting the result forward gives M's path for every identifier.
C10_WellFormedRoundTrip ==
  (op = "convert_mp_to_al" /\ WellFormed(mp)) =>
    exc = NoExc /\ SamePaths(al2, mp)

\* A well-formed tree of three levels, the deepest node added first, was converted.
C10_Witness ==
  /\ op = "convert_mp_to_al"
  /\ WellFormed(mp)
  /\ Len(mp.nodes) = 3
  /\ Depth(mp.nodes[1], mp.sep) = 3

-----------------------------------------------------------------------------
(* C9 *)

\* C9: a converter, returning or failing, leaves its input as it was, and the
\* container it returns is another one: add_node on any container changes no
\* other container.
C9_Frame ==
  [][/\ op' = "convert_al_to_mp" => al' = al /\ al2' = al2
     /\ op' = "convert_mp_to_al" => mp' = mp /\ al' = al
     /\ op' = "al.add_node" => mp' = mp /\ al2' = al2
     /\ op' = "mp.add_node" => al' = al /\ al2' = al2
     /\ op' = "al2.add_node" => al' = al /\ mp' = mp]_vars

\* A tree whose nodes are not in ascending depth was converted, and its
\* result differs from it in order.
C9_Witness ==
  /\ op = "convert_mp_to_al"
  /\ exc = NoExc
  /\ Len(mp.nodes) = 2
  /\ mp.nodes # SortByDepth(mp.nodes, mp.sep)
  /\ al2[1].node_id = mp.nodes[2].node_id

====
